---- MODULE Spec2Model ----
(***************************************************************************)
(* Model of the YouTube MP3 Batch Tool (src/main.py): the URL normalizer   *)
(* and classifier, the single-item pipeline, the playlist pipeline, the    *)
(* batch dispatcher and the interactive mode loop.  The external tools     *)
(* (yt-dlp, pydub, mutagen, the file system) are the environment: every    *)
(* call to one of them is a step whose outcome is chosen                   *)
(* nondeterministically among the outcomes the call can produce.           *)
(***************************************************************************)
EXTENDS Integers, Sequences, FiniteSets, TLC

VARIABLES pc,        \* position of main: start, menu, busy, exited, crashed
          clip_in,   \* the answer typed at the clip length prompt
          clip_len,  \* main's local clip_len
          batch,     \* frame of batch_from_file, with what it logged and called
          pl,        \* frame of process_playlist, with what it logged and called
          vid,       \* frame of process_video (the Single-Item Pipeline), likewise
          folder,    \* DOWNLOAD_FOLDER: file name -> Target URL whose audio it holds
          succeeded, \* Target URLs whose pipeline reached done
          nraw,      \* normalizer study: the raw URL
          nout       \* normalizer study: results of repeated sanitize_url

vars == <<pc, clip_in, clip_len, batch, pl, vid, folder, succeeded, nraw, nout>>

progVars == <<pc, clip_in, clip_len, batch, pl, vid, folder, succeeded>>

normVars == <<nraw, nout>>

----------------------------------------------------------------------------
(* Bounds *)

MaxParams == 2

MaxLines == 2

MaxEntries == 2

MaxPasses == 2

DEFAULT_CLIP_LEN == 60

----------------------------------------------------------------------------
(* URLs.  A URL is the record of the components urlparse splits it into;   *)
(* the query is the sequence of its key=value pairs as spelled.            *)

Url(s, h, p, q) == [scheme |-> s, host |-> h, path |-> p, query |-> q]

KV(k, v) == [k |-> k, v |-> v]

SeqsUpTo(S, n) == UNION {[1..m -> S] : m \in 0..n}

\* urlsplit lower-cases the scheme
Lower(s) == CASE s = "HTTPS" -> "https"
              [] s = "HTTP"  -> "http"
              [] OTHER       -> s

\* unquote_plus as applied by parse_qs to a value: "+" spells a space
Unquote(v) == IF v = "a+b" THEN "a b" ELSE v

\* quote_plus as applied by urlencode to a value: a space is spelled "+"
Quote(v) == IF v = "a b" THEN "a+b" ELSE v

\* parse_qs(query)[key]: the decoded non-blank values of key, in order
\* (keep_blank_values is off, so a pair with an empty value is dropped)
parse_qs(query, key) ==
    LET keep(i) == query[i].k = key /\ query[i].v # ""
        idx == {i \in DOMAIN query : keep(i)}
        RECURSIVE collect(_)
        collect(i) == IF i > Len(query) THEN <<>>
                      ELSE IF i \in idx
                           THEN <<Unquote(query[i].v)>> \o collect(i + 1)
                           ELSE collect(i + 1)
    IN collect(1)

\* variant: the last value of each key is taken, not the first
KeptParamsLast(query) ==
    LET last(q) == q[Len(q)]
    IN (IF parse_qs(query, "v") # <<>>
           THEN <<KV("v", Quote(last(parse_qs(query, "v"))))>> ELSE <<>>)
       \o
       (IF parse_qs(query, "list") # <<>>
           THEN <<KV("list", Quote(last(parse_qs(query, "list"))))>> ELSE <<>>)

\* the params dict of sanitize_url rendered by urlencode: v first, then list
KeptParams(query) ==
    (IF parse_qs(query, "v") # <<>>
        THEN <<KV("v", Quote(Head(parse_qs(query, "v"))))>> ELSE <<>>)
    \o
    (IF parse_qs(query, "list") # <<>>
        THEN <<KV("list", Quote(Head(parse_qs(query, "list"))))>> ELSE <<>>)

sanitize_url(raw) ==
    Url(Lower(raw.scheme), raw.host, raw.path, KeptParams(raw.query))

PlatformHosts == {"www.youtube.com", "youtube.com", "www.youtu.be", "youtu.be"}

\* ^https?://(www\.)?(youtube\.com|youtu\.be)/   (case-sensitive, and the
\* host must be followed by a slash, so the path is not empty)
is_youtube_url(url) ==
    /\ url.scheme \in {"http", "https"}
    /\ url.host \in PlatformHosts
    /\ url.path # ""

----------------------------------------------------------------------------
(* Normalizer study: sanitize_url applied repeatedly to one raw URL.       *)

NormSchemes == {"https", "HTTPS", "ftp"}

NormHosts == {"www.youtube.com", "example.com"}

NormPaths == {"/watch", ""}

NormKeys == {"v", "list", "t"}

NormValues == {"", "a", "a b", "a+b"}

NormPairs == {KV(k, v) : k \in NormKeys, v \in NormValues}

NormURLs == {Url(s, h, p, q) : s \in NormSchemes, h \in NormHosts,
                               p \in NormPaths, q \in SeqsUpTo(NormPairs, MaxParams)}

BlankUrl == Url("", "", "", <<>>)

NormInit == /\ nraw \in NormURLs
            /\ nout = <<>>

\* the first pass normalizes the raw URL
Normalize == /\ nout = <<>>
             /\ nout' = <<sanitize_url(nraw)>>
             /\ UNCHANGED nraw
             /\ UNCHANGED progVars

\* a later pass normalizes the previous result
Renormalize == /\ nout # <<>>
               /\ Len(nout) < MaxPasses
               /\ nout' = Append(nout, sanitize_url(nout[Len(nout)]))
               /\ UNCHANGED nraw
               /\ UNCHANGED progVars

----------------------------------------------------------------------------
(* The program: inputs of the environment.                                 *)

\* a video, with a query parameter the normalizer discards
UA == Url("https", "www.youtube.com", "/watch", <<KV("v", "a"), KV("t", "1")>>)

\* the same video under its short link
US == Url("https", "youtu.be", "/a", <<>>)

\* a playlist
UP == Url("https", "www.youtube.com", "/playlist", <<KV("list", "L")>>)

\* another site
UX == Url("https", "example.com", "/watch", <<KV("v", "a")>>)

\* a platform URL spelled with the word playlist and no list= in it
UN == Url("https", "www.youtube.com", "/playlist", <<>>)

\* the video with a parameter whose name ends in list
UM == Url("https", "www.youtube.com", "/watch", <<KV("v", "a"), KV("mylist", "x")>>)

\* the video, the scheme in capitals
UH == Url("HTTPS", "www.youtube.com", "/watch", <<KV("v", "a")>>)

\* the video, as a member of a playlist
UW == Url("https", "www.youtube.com", "/watch", <<KV("v", "a"), KV("list", "L")>>)

\* the video, with a parameter named playlist
UQ == Url("https", "www.youtube.com", "/watch", <<KV("v", "a"), KV("playlist", "x")>>)

\* what the user may type at the video URL prompt
VideoPrompts == {UA, US, UX, UH}

\* what the user may type at the playlist URL prompt
PlaylistPrompts == {UP, UX}

\* the stripped lines a batch file may hold (BlankUrl is an empty line)
FileLines == {UA, UP, UX, BlankUrl}

BatchFiles == SeqsUpTo(FileLines, MaxLines)

\* single-item study: every shape of URL at the video prompt
AllPrompts == {UA, US, UP, UX, UN, UM, UH, UW, UQ, BlankUrl}

\* routing study: batch files of one line, of every shape
RouteFiles == {<<l>> : l \in AllPrompts}

\* entries of a flat playlist listing: a member id, or an entry without "id"
NoId == "no-id"

Entries == {"a", NoId}

Listings == SeqsUpTo(Entries, MaxEntries)

\* answers to the clip length prompt
ClipInputs == {"", "abc", "-5", "0", "90"}

\* int(s): the strings int() accepts, and their values
IsInt(s) == s \in {"-5", "0", "90"}

IntOf(s) == CASE s = "-5" -> 0 - 5
              [] s = "0"  -> 0
              [] s = "90" -> 90
              [] OTHER    -> 0

----------------------------------------------------------------------------
(* The external collaborators.                                             *)

\* outcomes of yt-dlp --get-title --get-uploader: both lines, the title
\* only, no output, or a failed call (non-zero exit, yt-dlp missing)
MetaOutcomes == {"both", "title-only", "empty", "failed"}

\* the outcomes the whole-program specification draws from
MetaOutcomesMain == {"both", "failed"}

\* stdout.splitlines() of a call that succeeded
StdoutLines(res) ==
    CASE res = "both"       -> <<"Title", "Uploader">>
      [] res = "title-only" -> <<"Title">>
      [] OTHER              -> <<>>

Meta(r, t, a) == [raised |-> r, title |-> t, artist |-> a]

\* variant: no except branch, a failed call raises
fetch_metadata_raises(res) ==
    IF res = "failed"
    THEN Meta(TRUE, "", "")
    ELSE LET result == StdoutLines(res)
         IN Meta(FALSE,
                 IF result # <<>> THEN result[1] ELSE "Unknown Title",
                 IF Len(result) > 1 THEN result[2] ELSE "Unknown Artist")

\* lines 114-124: the try block reads the two lines; the except branch
\* supplies the timestamped title, so the function never raises
fetch_metadata(res) ==
    IF res = "failed"
    THEN Meta(FALSE, "Video_<time>", "Unknown Artist")
    ELSE LET result == StdoutLines(res)
         IN Meta(FALSE,
                 IF result # <<>> THEN result[1] ELSE "Unknown Title",
                 IF Len(result) > 1 THEN result[2] ELSE "Unknown Artist")

\* outcomes of download_mp3: the file was moved into the folder, no result
\* (None), a returned path with no file behind it, or an exception
\* (subprocess.run or os.rename raising)
DownloadOutcomes == {"moved", "none", "missing", "raise"}

\* variant: the existence of the returned path is not tested
DownloadFailedNoExists(res) == res = "none"

\* line 134: not mp3_path or not os.path.exists(mp3_path)
DownloadFailed(res) == res \in {"none", "missing"}

\* outcomes of trim_and_tag
TrimOutcomes == {"ok", "raise"}

\* the name yt-dlp's template %(title)s.mp3 gives the audio of a Target URL:
\* the title of the video it points at, so both URLs of video a share a name
FileNames == {"a.mp3", "other.mp3"}

FileNameOf(url) ==
    IF url.path = "/a" \/ parse_qs(url.query, "v") = <<"a">>
    THEN "a.mp3" ELSE "other.mp3"

NoFile == BlankUrl

\* os.rename(latest, final_path): the moved file takes the place of whatever
\* carried that name
Rename(dir, url) == [dir EXCEPT ![FileNameOf(url)] = url]

----------------------------------------------------------------------------
(* Frames.  Each holds the arguments and locals of a call and, in log, the *)
(* calls it made and the lines it logged, in order.                        *)

IdleVid == [state |-> "idle", raw |-> BlankUrl, url |-> BlankUrl,
            title |-> "", artist |-> "", length |-> 0, via |-> "main", log |-> <<>>]

IdlePl == [state |-> "idle", raw |-> BlankUrl, url |-> BlankUrl,
           entries |-> <<>>, idx |-> 0, length |-> 0, via |-> "main", log |-> <<>>]

IdleBatch == [state |-> "idle", lines |-> <<>>, idx |-> 0, length |-> 0, log |-> <<>>]

VidActive == vid.state \in {"classifying", "resolving-metadata",
                            "acquiring-audio", "trimming-and-tagging"}

PlActive == pl.state \in {"classifying", "listing", "iterating"}

\* an entry of a log: a call (with its outcome and arguments) or a log line
E(e, u, r, t, a, n) ==
    [ev |-> e, url |-> u, res |-> r, title |-> t, artist |-> a, length |-> n]

Ev(e, u, r) == E(e, u, r, "", "", 0)

EvCall(e, u, n) == E(e, u, "", "", "", n)

Logged(f, e) == [f EXCEPT !.log = Append(@, e)]

ProgInit ==
        /\ pc = "start"
        /\ clip_in = ""
        /\ clip_len = 0
        /\ batch = IdleBatch
        /\ pl = IdlePl
        /\ vid = IdleVid
        /\ folder = [n \in FileNames |-> NoFile]
        /\ succeeded = {}

Init == /\ ProgInit
        /\ nraw = BlankUrl
        /\ nout = <<>>

----------------------------------------------------------------------------
(* main: the clip length prompt and the mode loop.                         *)

\* variant: zero is taken as a clip length
EffectiveClipLenZero(s) ==
    IF IsInt(s) /\ ~(IntOf(s) < 0) THEN IntOf(s) ELSE DEFAULT_CLIP_LEN

\* lines 184-190: int() failing and a non-positive value both raise
\* ValueError, which selects the default
EffectiveClipLen(s) ==
    IF IsInt(s) /\ ~(IntOf(s) <= 0) THEN IntOf(s) ELSE DEFAULT_CLIP_LEN

main_clip_len(s) ==
    /\ pc = "start"
    /\ clip_in' = s
    /\ clip_len' = EffectiveClipLen(s)
    /\ pc' = "menu"
    /\ UNCHANGED <<batch, pl, vid, folder, succeeded>>
    /\ UNCHANGED normVars

\* the frame of a call process_video(raw, length) made by who
CallVideo(raw, length, who) ==
    [state |-> "classifying", raw |-> raw, url |-> sanitize_url(raw),
     title |-> "", artist |-> "", length |-> length, via |-> who, log |-> <<>>]

\* the frame of a call process_playlist(raw, length) made by who
CallPlaylist(raw, length, who) ==
    [state |-> "classifying", raw |-> raw, url |-> sanitize_url(raw),
     entries |-> <<>>, idx |-> 0, length |-> length, via |-> who, log |-> <<>>]

\* mode 1
main_video(raw) ==
    /\ pc = "menu"
    /\ pc' = "busy"
    /\ vid' = CallVideo(raw, clip_len, "main")
    /\ batch' = IdleBatch
    /\ pl' = IdlePl
    /\ UNCHANGED <<clip_in, clip_len, folder, succeeded>>
    /\ UNCHANGED normVars

\* mode 2
main_playlist(raw) ==
    /\ pc = "menu"
    /\ pc' = "busy"
    /\ pl' = CallPlaylist(raw, clip_len, "main")
    /\ batch' = IdleBatch
    /\ vid' = IdleVid
    /\ UNCHANGED <<clip_in, clip_len, folder, succeeded>>
    /\ UNCHANGED normVars

\* mode 3, lines 165-168 of batch_from_file: a missing file is logged and
\* the call returns
main_batch(exists, lines) ==
    /\ pc = "menu"
    /\ exists \/ lines = <<>>
    /\ pl' = IdlePl
    /\ vid' = IdleVid
    /\ IF exists
       THEN /\ pc' = "busy"
            /\ batch' = [state |-> "running", lines |-> lines, idx |-> 1,
                         length |-> clip_len, log |-> <<>>]
       ELSE /\ pc' = "menu"
            /\ batch' = [state |-> "returned", lines |-> <<>>, idx |-> 0,
                         length |-> clip_len,
                         log |-> <<Ev("Batch file not found", BlankUrl, "")>>]
    /\ UNCHANGED <<clip_in, clip_len, folder, succeeded>>
    /\ UNCHANGED normVars

\* mode 4
main_exit ==
    /\ pc = "menu"
    /\ pc' = "exited"
    /\ UNCHANGED <<clip_in, clip_len, batch, pl, vid, folder, succeeded>>
    /\ UNCHANGED normVars

\* any other answer: a message is printed and the prompt comes again
main_invalid_mode ==
    /\ pc = "menu"
    /\ batch' = IdleBatch
    /\ pl' = IdlePl
    /\ vid' = IdleVid
    /\ UNCHANGED <<pc, clip_in, clip_len, folder, succeeded>>
    /\ UNCHANGED normVars

----------------------------------------------------------------------------
(* Returns and exceptions.                                                 *)

\* main prompts again once the handler it called has returned
PcAfter(who) == IF who = "main" THEN "menu" ELSE pc

\* line 160: the handler's own message evaluates e['id'], where e is by now
\* the caught exception, so the handler raises TypeError
MemberHandlerRaises == TRUE

\* lines 159-162: an exception raised while a member is processed, p being
\* the frame of process_playlist at that point.  When the inner handler
\* raises, the outer handler logs the playlist as failed and the function
\* returns; otherwise the member is logged and the loop goes on.
MemberFails(p) ==
    IF MemberHandlerRaises
    THEN /\ pl' = Logged([p EXCEPT !.state = "returned"],
                         Ev("Error processing playlist", p.url, ""))
         /\ pc' = PcAfter(p.via)
    ELSE /\ pl' = Logged(p, Ev("Error processing video", p.url, ""))
         /\ pc' = pc

\* an exception leaving process_video: process_playlist catches it,
\* batch_from_file and main have no handler
Propagate(who) ==
    CASE who = "playlist" -> /\ MemberFails(pl)
                             /\ UNCHANGED batch
      [] who = "batch"    -> /\ batch' = [batch EXCEPT !.state = "raised"]
                             /\ pc' = "crashed"
                             /\ UNCHANGED pl
      [] OTHER            -> /\ pc' = "crashed"
                             /\ UNCHANGED <<pl, batch>>

----------------------------------------------------------------------------
(* process_video: the Single-Item Pipeline.                                *)

\* variant: only the scheme is tested
VideoRejectsSchemeOnly(url) == url.scheme \notin {"http", "https"}

\* line 128
VideoRejects(url) == ~is_youtube_url(url)

\* lines 127-130
pv_classify ==
    /\ vid.state = "classifying"
    /\ IF VideoRejects(vid.url)
       THEN /\ vid' = Logged([vid EXCEPT !.state = "aborted"],
                             Ev("Skipping invalid URL", vid.url, ""))
            /\ pc' = PcAfter(vid.via)
       ELSE /\ vid' = [vid EXCEPT !.state = "resolving-metadata"]
            /\ pc' = pc
    /\ UNCHANGED <<clip_in, clip_len, batch, pl, folder, succeeded>>
    /\ UNCHANGED normVars

\* lines 131-132
pv_resolve_metadata(res) ==
    /\ vid.state = "resolving-metadata"
    /\ LET m == fetch_metadata(res)
           v == Logged(vid, Ev("fetch_metadata", vid.url, res))
       IN IF m.raised
          THEN /\ vid' = [v EXCEPT !.state = "raised"]
               /\ Propagate(vid.via)
          ELSE /\ vid' = [v EXCEPT !.state = "acquiring-audio",
                                   !.title = m.title, !.artist = m.artist]
               /\ UNCHANGED <<pc, pl, batch>>
    /\ UNCHANGED <<clip_in, clip_len, folder, succeeded>>
    /\ UNCHANGED normVars

\* lines 133-136, with download_mp3's move into the folder (line 98)
pv_acquire(res) ==
    /\ vid.state = "acquiring-audio"
    /\ folder' = IF res = "moved" THEN Rename(folder, vid.url) ELSE folder
    /\ LET v == Logged(vid, Ev("download_mp3", vid.url, res))
       IN IF res = "raise"
          THEN /\ vid' = [v EXCEPT !.state = "raised"]
               /\ Propagate(vid.via)
          ELSE IF DownloadFailed(res)
          THEN /\ vid' = Logged([v EXCEPT !.state = "aborted"],
                                Ev("Failed to download MP3", vid.url, ""))
               /\ pc' = PcAfter(vid.via)
               /\ UNCHANGED <<pl, batch>>
          ELSE /\ vid' = [v EXCEPT !.state = "trimming-and-tagging"]
               /\ UNCHANGED <<pc, pl, batch>>
    /\ UNCHANGED <<clip_in, clip_len, succeeded>>
    /\ UNCHANGED normVars

\* lines 137-140
pv_trim_and_tag(res) ==
    /\ vid.state = "trimming-and-tagging"
    /\ LET v == Logged(vid, E("trim_and_tag", vid.url, res,
                              vid.title, vid.artist, vid.length))
       IN IF res = "ok"
          THEN /\ vid' = [v EXCEPT !.state = "done"]
               /\ succeeded' = succeeded \cup {vid.url}
          ELSE /\ vid' = Logged([v EXCEPT !.state = "aborted"],
                                Ev("Error trimming/tagging", vid.url, ""))
               /\ UNCHANGED succeeded
    /\ pc' = PcAfter(vid.via)
    /\ UNCHANGED <<clip_in, clip_len, batch, pl, folder>>
    /\ UNCHANGED normVars

----------------------------------------------------------------------------
(* process_playlist: the Playlist Pipeline.                                *)

\* line 144
PlaylistRejects(url) == ~is_youtube_url(url)

\* line 157
MemberUrl(id) == Url("https", "www.youtube.com", "/watch", <<KV("v", id)>>)

\* lines 143-146
pl_classify ==
    /\ pl.state = "classifying"
    /\ IF PlaylistRejects(pl.url)
       THEN /\ pl' = Logged([pl EXCEPT !.state = "returned"],
                            Ev("Skipping invalid playlist URL", pl.url, ""))
            /\ pc' = PcAfter(pl.via)
       ELSE /\ pl' = [pl EXCEPT !.state = "listing"]
            /\ pc' = pc
    /\ UNCHANGED <<clip_in, clip_len, batch, vid, folder, succeeded>>
    /\ UNCHANGED normVars

\* lines 147-154 and 161-162: the listing call; a failed call or output
\* that is not a JSON object is caught by the outer handler
pl_list(ok, entries) ==
    /\ pl.state = "listing"
    /\ IF ok
       THEN /\ pl' = Logged([pl EXCEPT !.state = "iterating",
                                       !.entries = entries, !.idx = 1],
                            Ev("flat-playlist", pl.url, "ok"))
            /\ pc' = pc
       ELSE /\ entries = <<>>
            /\ pl' = [pl EXCEPT !.state = "returned",
                                !.log = @ \o <<Ev("flat-playlist", pl.url, "failed"),
                                               Ev("Error processing playlist", pl.url, "")>>]
            /\ pc' = PcAfter(pl.via)
    /\ UNCHANGED <<clip_in, clip_len, batch, vid, folder, succeeded>>
    /\ UNCHANGED normVars

\* lines 155-160: one turn of the loop over the entries (the frame of the
\* call of process_video that has returned is dropped)
pl_member ==
    /\ pl.state = "iterating"
    /\ ~VidActive
    /\ IF pl.idx > Len(pl.entries)
       THEN /\ pl' = [pl EXCEPT !.state = "returned"]
            /\ pc' = PcAfter(pl.via)
            /\ vid' = IdleVid
       ELSE IF pl.entries[pl.idx] = NoId
       THEN /\ MemberFails([pl EXCEPT !.idx = @ + 1])
            /\ vid' = IdleVid
       ELSE LET url == MemberUrl(pl.entries[pl.idx])
            IN /\ pl' = Logged([pl EXCEPT !.idx = @ + 1],
                               EvCall("process_video", url, pl.length))
               /\ vid' = CallVideo(url, pl.length, "playlist")
               /\ pc' = pc
    /\ UNCHANGED <<clip_in, clip_len, batch, folder, succeeded>>
    /\ UNCHANGED normVars

----------------------------------------------------------------------------
(* batch_from_file: the Batch Dispatcher.                                  *)

\* 'list=' in link: some key=value pair is spelled with a key ending in list
EndsWithList(k) == k \in {"list", "mylist", "playlist"}

HasListEq(link) == \E i \in DOMAIN link.query : EndsWithList(link.query[i].k)

\* the word playlist occurs in the line (a test the loop does not make)
ContainsPlaylist(link) ==
    \/ link.path = "/playlist"
    \/ \E i \in DOMAIN link.query : link.query[i].k = "playlist"

\* variant: the word playlist also selects the Playlist Pipeline
RoutePlaylistWord(link) ==
    IF link = BlankUrl THEN "blank"
    ELSE IF ~is_youtube_url(link) THEN "skip"
    ELSE IF HasListEq(link) \/ ContainsPlaylist(link) THEN "process_playlist"
    ELSE "process_video"

\* variant: a line that is no platform URL is passed over without a log line
RouteSilent(link) ==
    IF link = BlankUrl \/ ~is_youtube_url(link) THEN "blank"
    ELSE IF HasListEq(link) THEN "process_playlist"
    ELSE "process_video"

\* lines 170-179: what the loop does with a stripped line
Route(link) ==
    IF link = BlankUrl THEN "blank"
    ELSE IF ~is_youtube_url(link) THEN "skip"
    ELSE IF HasListEq(link) THEN "process_playlist"
    ELSE "process_video"

\* lines 169-179: one turn of the loop over the lines (the frames of the
\* calls that have returned are dropped)
bf_line ==
    /\ batch.state = "running"
    /\ ~PlActive
    /\ ~VidActive
    /\ IF batch.idx > Len(batch.lines)
       THEN /\ batch' = [batch EXCEPT !.state = "returned"]
            /\ pc' = "menu"
            /\ pl' = IdlePl
            /\ vid' = IdleVid
       ELSE LET link == batch.lines[batch.idx]
                r == Route(link)
                b == [batch EXCEPT !.idx = @ + 1]
            IN /\ pc' = pc
               /\ CASE r = "blank" ->
                          /\ batch' = b
                          /\ pl' = IdlePl
                          /\ vid' = IdleVid
                    [] r = "skip"  ->
                          /\ batch' = Logged(b, Ev("Skipping invalid URL", link, ""))
                          /\ pl' = IdlePl
                          /\ vid' = IdleVid
                    [] r = "process_playlist" ->
                          /\ batch' = Logged(b, EvCall(r, link, batch.length))
                          /\ pl' = CallPlaylist(link, batch.length, "batch")
                          /\ vid' = IdleVid
                    [] OTHER ->
                          /\ batch' = Logged(b, EvCall(r, link, batch.length))
                          /\ vid' = CallVideo(link, batch.length, "batch")
                          /\ pl' = IdlePl
    /\ UNCHANGED <<clip_in, clip_len, folder, succeeded>>
    /\ UNCHANGED normVars

----------------------------------------------------------------------------
(* Specifications.                                                         *)

\* the whole program
Next ==
    \/ \E s \in ClipInputs : main_clip_len(s)
    \/ \E raw \in VideoPrompts : main_video(raw)
    \/ \E raw \in PlaylistPrompts : main_playlist(raw)
    \/ \E exists \in BOOLEAN, lines \in BatchFiles : main_batch(exists, lines)
    \/ main_exit
    \/ main_invalid_mode
    \/ pv_classify
    \/ \E res \in MetaOutcomesMain : pv_resolve_metadata(res)
    \/ \E res \in DownloadOutcomes : pv_acquire(res)
    \/ \E res \in TrimOutcomes : pv_trim_and_tag(res)
    \/ pl_classify
    \/ \E ok \in BOOLEAN, entries \in Listings : pl_list(ok, entries)
    \/ pl_member
    \/ bf_line

Spec == Init /\ [][Next]_vars

\* the Single-Item Pipeline alone: mode 1 over every shape of URL and every
\* outcome of the metadata call
NextVideo ==
    \/ \E s \in ClipInputs : main_clip_len(s)
    \/ \E raw \in AllPrompts : main_video(raw)
    \/ main_exit
    \/ pv_classify
    \/ \E res \in MetaOutcomes : pv_resolve_metadata(res)
    \/ \E res \in DownloadOutcomes : pv_acquire(res)
    \/ \E res \in TrimOutcomes : pv_trim_and_tag(res)

SpecVideo == Init /\ [][NextVideo]_vars

\* the Batch Dispatcher over files of one line of every shape
NextRoute ==
    \/ \E s \in ClipInputs : main_clip_len(s)
    \/ \E lines \in RouteFiles : main_batch(TRUE, lines)
    \/ main_exit
    \/ pv_classify
    \/ \E res \in MetaOutcomesMain : pv_resolve_metadata(res)
    \/ \E res \in DownloadOutcomes : pv_acquire(res)
    \/ \E res \in TrimOutcomes : pv_trim_and_tag(res)
    \/ pl_classify
    \/ \E ok \in BOOLEAN, entries \in Listings : pl_list(ok, entries)
    \/ pl_member
    \/ bf_line

SpecRoute == Init /\ [][NextRoute]_vars

\* the URL Normalizer alone
NormNext == Normalize \/ Renormalize

InitNorm == ProgInit /\ NormInit

SpecNorm == InitNorm /\ [][NormNext]_vars

----------------------------------------------------------------------------
(* Properties.                                                             *)

\* the entries of a log of one kind
Calls(log, e) == SelectSeq(log, LAMBDA x : x.ev = e)

IsDispatch(e) == e.ev \in {"process_video", "process_playlist"}

\* the URLs process_playlist passed to process_video, in order
InvokedMembers(log) ==
    LET c == Calls(log, "process_video") IN [i \in 1..Len(c) |-> c[i].url]

\* the canonical URLs of the entries that carry an id, in listing order
ExpectedMembers(entries) ==
    LET c == SelectSeq(entries, LAMBDA x : x # NoId)
    IN [i \in 1..Len(c) |-> MemberUrl(c[i])]

\* C1: in batch_from_file a failure on one line never halts the batch: once
\* the call has ended it has returned normally, and every non-blank line of
\* the file has been classified and dispatched.
C1_BatchNeverHalts ==
    batch.state \in {"returned", "raised"} =>
        /\ batch.state = "returned"
        /\ \A i \in DOMAIN batch.lines :
              batch.lines[i] # BlankUrl => i < batch.idx

\* C2: in process_playlist a failing member (an entry without an id, or
\* process_video raising) does not keep the later members from being passed
\* to process_video: once the call has returned, every entry with an id has
\* been passed on, in listing order.
C2_MembersIsolated ==
    pl.state = "returned" => InvokedMembers(pl.log) = ExpectedMembers(pl.entries)

\* C3: when download_mp3 gives no result or a path with no file, the item is
\* aborted and trim_and_tag is not called; trim_and_tag is called only as the
\* third call of an item whose URL passed classification, after
\* fetch_metadata and after a download_mp3 that moved a file in.
C3_AcquireGuardsTrim ==
    /\ \A i \in DOMAIN vid.log :
          (vid.log[i].ev = "download_mp3" /\ vid.log[i].res \in {"none", "missing"})
          => /\ vid.state = "aborted"
             /\ Calls(vid.log, "trim_and_tag") = <<>>
    /\ \A i \in DOMAIN vid.log :
          vid.log[i].ev = "trim_and_tag"
          => /\ i = 3
             /\ is_youtube_url(vid.url)
             /\ vid.log[1].ev = "fetch_metadata"
             /\ vid.log[2].ev = "download_mp3"
             /\ vid.log[2].res = "moved"

C3_Witness ==
    /\ vid.state = "aborted"
    /\ Len(vid.log) = 3
    /\ vid.log[2].ev = "download_mp3"
    /\ vid.log[2].res = "missing"
    /\ vid.log[3].ev = "Failed to download MP3"

HasListParam(link) == \E i \in DOMAIN link.query : link.query[i].k = "list"

LineShape(link) ==
    <<IF is_youtube_url(link) THEN "dispatch" ELSE "Skipping invalid URL", link>>

EventShape(e) == <<IF IsDispatch(e) THEN "dispatch" ELSE e.ev, e.url>>

FallbackTitle(res) == IF res = "failed" THEN "Video_<time>" ELSE "Unknown Title"

\* C8: when the metadata call fails or yields nothing, fetch_metadata hands
\* back a fallback pair instead of raising; process_video goes on to
\* download_mp3, and whatever is later passed to trim_and_tag is that pair.
C8_MetadataFailureRecovered ==
    \A i \in DOMAIN vid.log :
       (vid.log[i].ev = "fetch_metadata" /\ vid.log[i].res \in {"failed", "empty"})
       => /\ Len(vid.log) = i => vid.state = "acquiring-audio"
          /\ Len(vid.log) > i => vid.log[i + 1].ev = "download_mp3"
          /\ vid.title = FallbackTitle(vid.log[i].res)
          /\ vid.artist = "Unknown Artist"
          /\ \A j \in DOMAIN vid.log :
                vid.log[j].ev = "trim_and_tag"
                => /\ vid.log[j].title = FallbackTitle(vid.log[i].res)
                   /\ vid.log[j].artist = "Unknown Artist"

C8_Witness ==
    /\ vid.state = "done"
    /\ vid.log[1].res = "failed"
    /\ vid.log[3].ev = "trim_and_tag"
    /\ vid.log[3].title = "Video_<time>"

\* the first non-blank value of key in a query, as spelled
HasValue(query, key) == \E i \in DOMAIN query : query[i].k = key /\ query[i].v # ""

FirstValue(query, key) ==
    LET idx == {i \in DOMAIN query : query[i].k = key /\ query[i].v # ""}
    IN query[CHOOSE i \in idx : \A j \in idx : i <= j].v

ExpectedClipLen(s) ==
    IF ~IsInt(s) \/ IntOf(s) <= 0 THEN 60 ELSE IntOf(s)

\* C10: a blank, non-numeric, zero or negative answer to the clip length
\* prompt gives the clip length 60 and a positive integer gives itself; from
\* then on every call of process_video, process_playlist and
\* batch_from_file, and every call of trim_and_tag, receives that value.
C10_ClipLengthFixed ==
    pc # "start" =>
       /\ clip_len = ExpectedClipLen(clip_in)
       /\ vid.state # "idle" => vid.length = clip_len
       /\ pl.state # "idle" => pl.length = clip_len
       /\ batch.state # "idle" => batch.length = clip_len
       /\ \A i \in DOMAIN vid.log :
             vid.log[i].ev = "trim_and_tag" => vid.log[i].length = clip_len
       /\ \A i \in DOMAIN pl.log :
             IsDispatch(pl.log[i]) => pl.log[i].length = clip_len
       /\ \A i \in DOMAIN batch.log :
             IsDispatch(batch.log[i]) => batch.log[i].length = clip_len

C10_Witness ==
    /\ clip_in = "0"
    /\ batch.state = "running"
    /\ vid.state = "done"
    /\ vid.via = "playlist"
    /\ vid.log[3].length = 60

\* C6: the folder holds the artifact of every Target URL whose pipeline has
\* reached done: no later item replaces or removes it.
C6_OneArtifactPerTarget ==
    \A u \in succeeded : folder[FileNameOf(u)] = u

====
